---- MODULE Spec2Model ----
(***************************************************************************)
(* A model of the console file explorer of 2241002027.cpp: the REPL of     *)
(* main, its operations, and the part of the filesystem they act on.       *)
(*                                                                         *)
(* The filesystem is an inode table.  A path argument is a sequence of     *)
(* components (the text between the separators); every path is relative    *)
(* and is resolved from the process's working directory, which is an inode *)
(* as it is in the kernel.  A name is the sequence of its characters, so   *)
(* that string::find is computed and not assumed.  A line of input is read  *)
(* already split into its words.  The clock of logAction is the number of  *)
(* lines read so far.                                                      *)
(***************************************************************************)
EXTENDS Integers, Sequences, FiniteSets, TLC

\* ------------------------------------------------------------------ bounds
MaxNodes == 10
MaxCmds == 1

\* --------------------------------------------------------------- constants
Root == 0
NoNode == -1
Ids == 0 .. (MaxNodes - 1)

\* "activity_log.txt", the literal of logAction and showHistory
LogName == <<"a","c","t","i","v","i","t","y","_","l","o","g",".","t","x","t">>
Dot == <<".">>
DotDot == <<".", ".">>
NameA == <<"a">>
NameAB == <<"a", "b">>
Names == {NameA, NameAB, LogName}

\* The orders in which readdir may return the names of a directory.
Orders ==
  {o \in {<<x, y, z>> : x \in Names, y \in Names, z \in Names} :
     \A i, j \in 1..3 : i # j => o[i] # o[j]}

NoArg == <<>>
EmptyEnts == [n \in {} |-> NoNode]

FreeNode ==
  [kind |-> "free", parent |-> NoNode, live |-> FALSE, ents |-> EmptyEnts, data |-> <<>>]

\* One line of a file.  A record of the log is "[<time>] <act><a1>[ -> <a2>]";
\* any other text is a line with time 0.
Rec(t, act, a1, a2) == [time |-> t, act |-> act, a1 |-> a1, a2 |-> a2]
Raw(s) == Rec(0, s, NoArg, NoArg)

\* What a command printed: its message, the paths it printed, the lines it printed.
Printed(msg, paths, lines) == [msg |-> msg, paths |-> paths, lines |-> lines]
Say(msg) == Printed(msg, <<>>, <<>>)

Front(s) == SubSeq(s, 1, Len(s) - 1)
Last(s) == s[Len(s)]
Range(s) == {s[i] : i \in 1..Len(s)}

\* ------------------------------------------------------------- the kernel
IsDirNode(fs, n) == n # NoNode /\ fs[n].kind = "dir"
IsFileNode(fs, n) == n # NoNode /\ fs[n].kind = "file"

Lookup(fs, d, name) ==
  IF name = Dot THEN d
  ELSE IF name = DotDot THEN fs[d].parent
  ELSE IF name \in DOMAIN fs[d].ents THEN fs[d].ents[name]
  ELSE NoNode

\* Path resolution from directory `at`: every component but the last must be a
\* directory; ".." of an unlinked directory is still its former parent.
RECURSIVE Walk(_, _, _)
Walk(fs, at, comps) ==
  IF at = NoNode THEN NoNode
  ELSE IF comps = <<>> THEN at
  ELSE IF fs[at].kind # "dir" THEN NoNode
  ELSE Walk(fs, Lookup(fs, at, Head(comps)), Tail(comps))

\* The working directory and its ancestors.
RECURSIVE Chain(_, _)
Chain(fs, n) ==
  IF n = Root \/ n = NoNode THEN {n} \ {NoNode}
  ELSE {n} \cup Chain(fs, fs[n].parent)

FreeIds(fs) == {i \in Ids : fs[i].kind = "free"}
NewId(fs) == CHOOSE i \in FreeIds(fs) : \A j \in FreeIds(fs) : i <= j

AddEnt(e, name, id) ==
  [n \in (DOMAIN e) \cup {name} |-> IF n = name THEN id ELSE e[n]]
DelEnt(e, name) == [n \in (DOMAIN e) \ {name} |-> e[n]]

\* The inode t loses its last link.  A file is freed (no handle outlives an
\* operation); a directory the process still stands in, or below, stays as an
\* unlinked directory.
Drop(fs, cwd, t) ==
  IF fs[t].kind = "dir" /\ t \in Chain(fs, cwd)
  THEN [fs EXCEPT ![t].live = FALSE]
  ELSE [fs EXCEPT ![t] = FreeNode]

\* Unlinked directories nothing refers to any more are freed.
Collect(fs, cwd) ==
  [i \in Ids |->
     IF fs[i].kind = "dir" /\ ~fs[i].live /\ i \notin Chain(fs, cwd)
     THEN FreeNode ELSE fs[i]]

Failed(fs) == [ok |-> FALSE, fs |-> fs, id |-> NoNode]
Done(fs, id) == [ok |-> TRUE, fs |-> fs, id |-> id]

\* open(2) for writing with O_CREAT, as fopen "wb" (trunc) and "ab", and
\* ofstream with ios::app, do it.
OpenWrite(fs, cwd, path, trunc) ==
  LET d == Walk(fs, cwd, Front(path))
      l == Last(path)
  IN IF ~IsDirNode(fs, d) THEN Failed(fs)
     ELSE LET t == Lookup(fs, d, l) IN
       IF t # NoNode
       THEN IF fs[t].kind = "dir" THEN Failed(fs)
            ELSE Done(IF trunc THEN [fs EXCEPT ![t].data = <<>>] ELSE fs, t)
       ELSE IF l \in {Dot, DotDot} \/ ~fs[d].live \/ FreeIds(fs) = {} THEN Failed(fs)
       ELSE LET i == NewId(fs) IN
         Done([fs EXCEPT ![i] = [FreeNode EXCEPT !.kind = "file", !.parent = d, !.live = TRUE],
                         ![d].ents = AddEnt(@, l, i)], i)

\* mkdir(2)
MkdirCall(fs, cwd, path) ==
  LET d == Walk(fs, cwd, Front(path))
      l == Last(path)
  IN IF ~IsDirNode(fs, d) THEN Failed(fs)
     ELSE IF Lookup(fs, d, l) # NoNode THEN Failed(fs)
     ELSE IF l \in {Dot, DotDot} \/ ~fs[d].live \/ FreeIds(fs) = {} THEN Failed(fs)
     ELSE LET i == NewId(fs) IN
       Done([fs EXCEPT ![i] = [FreeNode EXCEPT !.kind = "dir", !.parent = d, !.live = TRUE],
                       ![d].ents = AddEnt(@, l, i)], i)

\* rmdir(2): the last component may be neither "." nor "..", and the
\* directory must be empty.
RmdirCall(fs, cwd, path) ==
  LET d == Walk(fs, cwd, Front(path))
      l == Last(path)
  IN IF ~IsDirNode(fs, d) \/ l \in {Dot, DotDot} THEN Failed(fs)
     ELSE LET t == Lookup(fs, d, l) IN
       IF ~IsDirNode(fs, t) \/ DOMAIN fs[t].ents # {} THEN Failed(fs)
       ELSE Done(Drop([fs EXCEPT ![d].ents = DelEnt(@, l)], cwd, t), t)

\* unlink(2)
UnlinkCall(fs, cwd, path) ==
  LET d == Walk(fs, cwd, Front(path))
      l == Last(path)
  IN IF ~IsDirNode(fs, d) \/ l \in {Dot, DotDot} THEN Failed(fs)
     ELSE LET t == Lookup(fs, d, l) IN
       IF ~IsFileNode(fs, t) THEN Failed(fs)
       ELSE Done(Drop([fs EXCEPT ![d].ents = DelEnt(@, l)], cwd, t), t)

\* remove(3): unlink for a file, rmdir for a directory.
RemoveCall(fs, cwd, path) ==
  IF IsDirNode(fs, Walk(fs, cwd, path)) THEN RmdirCall(fs, cwd, path)
  ELSE UnlinkCall(fs, cwd, path)

\* rename(2)
RenameCall(fs, cwd, src, dest) ==
  LET sd == Walk(fs, cwd, Front(src))
      sl == Last(src)
      dd == Walk(fs, cwd, Front(dest))
      dl == Last(dest)
  IN IF ~IsDirNode(fs, sd) \/ ~IsDirNode(fs, dd) THEN Failed(fs)
     ELSE IF sl \in {Dot, DotDot} \/ dl \in {Dot, DotDot} THEN Failed(fs)
     ELSE LET s == Lookup(fs, sd, sl)
              t == Lookup(fs, dd, dl)
          IN IF s = NoNode THEN Failed(fs)
             ELSE IF s = t THEN Done(fs, s)
             ELSE IF fs[s].kind = "dir" /\ s \in Chain(fs, dd) THEN Failed(fs)
             ELSE IF t # NoNode /\ fs[s].kind # fs[t].kind THEN Failed(fs)
             ELSE IF t # NoNode /\ DOMAIN fs[t].ents # {} THEN Failed(fs)
             ELSE IF t = NoNode /\ ~fs[dd].live THEN Failed(fs)
             ELSE LET f1 == [fs EXCEPT ![sd].ents = DelEnt(@, sl)]
                      f2 == [f1 EXCEPT ![dd].ents = AddEnt(@, dl, s), ![s].parent = dd]
                  IN Done(IF t = NoNode THEN f2 ELSE Drop(f2, cwd, t), s)

\* getcwd(3): the names from the root down, or no path when the working
\* directory, or one above it, is unlinked.
NameIn(fs, d, n) == CHOOSE x \in DOMAIN fs[d].ents : fs[d].ents[x] = n
RECURSIVE PathOf(_, _)
PathOf(fs, n) ==
  IF n = Root THEN <<>> ELSE Append(PathOf(fs, fs[n].parent), NameIn(fs, fs[n].parent, n))
Connected(fs, n) == \A i \in Chain(fs, n) : fs[i].live

\* --------------------------------------------------------- the operations
\* logAction: one record appended to activity_log.txt of the working
\* directory; nothing at all when the file cannot be opened.
logAction(fs, cwd, t, act, a1, a2) ==
  LET r == OpenWrite(fs, cwd, <<LogName>>, FALSE)
  IN IF ~r.ok THEN fs
     ELSE [r.fs EXCEPT ![r.id].data = Append(@, Rec(t, act, a1, a2))]

\* isDirectory: stat succeeds and the mode says directory.
isDirectory(fs, cwd, path) == IsDirNode(fs, Walk(fs, cwd, path))

\* The names readdir returns for directory d, "." and ".." left out.
ReadDir(fs, d, order) == SelectSeq(order, LAMBDA n : n \in DOMAIN fs[d].ents)

\* A slip in searchFile's test: the pattern only at the start of the name.
NameMatchesAtStart(name, pattern) ==
  Len(pattern) <= Len(name) /\ SubSeq(name, 1, Len(pattern)) = pattern

\* name.find(pattern) != string::npos
NameMatches(name, pattern) ==
  \E i \in 0 .. (Len(name) - Len(pattern)) : SubSeq(name, i + 1, i + Len(pattern)) = pattern

Result(fs, cwd, out, ok) == [fs |-> fs, cwd |-> cwd, out |-> out, ok |-> ok]

\* One printed line of a listing: the marker, the name and, as the number, the
\* size (of a file: its length; of a directory: not modelled, 0).
Listing(fs, n, name) ==
  Rec(IF fs[n].kind = "dir" THEN 0 ELSE Len(fs[n].data),
      IF fs[n].kind = "dir" THEN "[DIR]  " ELSE "       ", <<name>>, NoArg)

listFiles(fs, cwd, t, path, order) ==
  LET d == Walk(fs, cwd, path)
  IN IF ~IsDirNode(fs, d) THEN Result(fs, cwd, Say("ls: error"), FALSE)
     ELSE LET names == ReadDir(fs, d, order)
              lines == [i \in 1..Len(names) |-> Listing(fs, fs[d].ents[names[i]], names[i])]
          IN Result(logAction(fs, cwd, t, "Listed contents of: ", path, NoArg), cwd,
                    Printed("Contents of ", <<path>>, lines), TRUE)

\* A slip in changeDir: a path that names a file moves to the file's directory.
changeDirToFolderOf(fs, cwd, t, path) ==
  LET n == IF IsFileNode(fs, Walk(fs, cwd, path)) THEN Walk(fs, cwd, Front(path))
           ELSE Walk(fs, cwd, path)
  IN IF IsDirNode(fs, n)
     THEN Result(logAction(Collect(fs, n), n, t, "Changed directory to: ", path, NoArg), n,
                 Printed("Changed directory to: ", <<path>>, <<>>), TRUE)
     ELSE Result(fs, cwd, Say("cd: error"), FALSE)

changeDir(fs, cwd, t, path) ==
  LET n == Walk(fs, cwd, path)
  IN IF IsDirNode(fs, n)
     THEN Result(logAction(Collect(fs, n), n, t, "Changed directory to: ", path, NoArg), n,
                 Printed("Changed directory to: ", <<path>>, <<>>), TRUE)
     ELSE Result(fs, cwd, Say("cd: error"), FALSE)

printPwd(fs, cwd, t) ==
  Result(logAction(fs, cwd, t, "Checked current directory.", NoArg, NoArg), cwd,
         IF Connected(fs, cwd) THEN Printed("", <<PathOf(fs, cwd)>>, <<>>) ELSE Say("pwd: error"),
         Connected(fs, cwd))

\* copyFile, and the message main prints for what it returns.  The source is
\* opened first and read only after the destination was opened and truncated;
\* a directory opens for reading and reads as nothing.
copyFile(fs, cwd, t, src, dest) ==
  LET in == Walk(fs, cwd, src)
  IN IF in = NoNode THEN Result(fs, cwd, Say("cp: error"), FALSE)
     ELSE LET r == OpenWrite(fs, cwd, dest, TRUE)
          IN IF ~r.ok THEN Result(fs, cwd, Say("cp: error"), FALSE)
             ELSE LET bytes == IF r.fs[in].kind = "file" THEN r.fs[in].data ELSE <<>>
                      f2 == [r.fs EXCEPT ![r.id].data = @ \o bytes]
                  IN Result(logAction(f2, cwd, t, "Copied file: ", src, dest), cwd,
                            Printed("Copied: ", <<src, dest>>, <<>>), TRUE)

\* removeRecursive.  `sees` says whether readdir also returns an entry made in
\* the directory while it is being read (POSIX leaves that open); the only
\* entry made during a removal is the log, by logAction.
RECURSIVE removeRecursive(_, _, _, _, _, _)
RECURSIVE RemoveEach(_, _, _, _, _, _, _)
removeRecursive(fs, cwd, t, path, order, sees) ==
  IF isDirectory(fs, cwd, path)
  THEN LET d == Walk(fs, cwd, path)
           names == ReadDir(fs, d, order)
           f1 == RemoveEach(fs, cwd, t, path, names, order, sees)
           f2 == IF sees /\ names # <<>> /\ d = cwd /\ LogName \in DOMAIN f1[d].ents
                 THEN removeRecursive(f1, cwd, t, Append(path, LogName), order, FALSE)
                 ELSE f1
       IN logAction(RmdirCall(f2, cwd, path).fs, cwd, t, "Removed: ", path, NoArg)
  ELSE logAction(RemoveCall(fs, cwd, path).fs, cwd, t, "Removed: ", path, NoArg)

RemoveEach(fs, cwd, t, path, names, order, sees) ==
  IF names = <<>> THEN fs
  ELSE RemoveEach(removeRecursive(fs, cwd, t, Append(path, Head(names)), order, sees),
                  cwd, t, path, Tail(names), order, sees)

\* searchFile: the filesystem after it (it logs once per directory it read)
\* and the full paths it printed, in the order printed.
Found(fs, paths) == [fs |-> fs, paths |-> paths]

RECURSIVE searchFile(_, _, _, _, _, _, _)
RECURSIVE SearchEach(_, _, _, _, _, _, _, _)
searchFile(fs, cwd, t, pattern, path, order, sees) ==
  LET d == Walk(fs, cwd, path)
  IN IF ~IsDirNode(fs, d) THEN Found(fs, <<>>)
     ELSE LET names == ReadDir(fs, d, order)
              r1 == SearchEach(Found(fs, <<>>), cwd, t, pattern, path, names, order, sees)
              r2 == IF sees /\ d = cwd /\ LogName \notin Range(names)
                       /\ LogName \in DOMAIN r1.fs[d].ents
                    THEN SearchEach(r1, cwd, t, pattern, path, <<LogName>>, order, FALSE)
                    ELSE r1
          IN Found(logAction(r2.fs, cwd, t, "Searched for: ", <<pattern>>, path), r2.paths)

SearchEach(acc, cwd, t, pattern, path, names, order, sees) ==
  IF names = <<>> THEN acc
  ELSE LET fullPath == Append(path, Head(names))
           shown == IF NameMatches(Head(names), pattern)
                    THEN Append(acc.paths, fullPath) ELSE acc.paths
           sub == IF isDirectory(acc.fs, cwd, fullPath)
                  THEN searchFile(acc.fs, cwd, t, pattern, fullPath, order, sees)
                  ELSE Found(acc.fs, <<>>)
       IN SearchEach(Found(sub.fs, shown \o sub.paths), cwd, t, pattern, path,
                     Tail(names), order, sees)

touchFile(fs, cwd, t, path) ==
  LET r == OpenWrite(fs, cwd, path, FALSE)
  IN IF r.ok
     THEN Result(logAction(r.fs, cwd, t, "Created or updated file: ", path, NoArg), cwd,
                 Printed("File created/updated: ", <<path>>, <<>>), TRUE)
     ELSE Result(fs, cwd, Say("touch: error"), FALSE)

\* A slip in makeDir: the record written only when mkdir succeeded.
makeDirLogsOnSuccess(fs, cwd, t, path) ==
  LET r == MkdirCall(fs, cwd, path)
  IN IF r.ok
     THEN Result(logAction(r.fs, cwd, t, "Created directory: ", path, NoArg), cwd,
                 Printed("Directory created: ", <<path>>, <<>>), TRUE)
     ELSE Result(fs, cwd, Say("mkdir: error"), FALSE)

makeDir(fs, cwd, t, path) ==
  LET r == MkdirCall(fs, cwd, path)
  IN Result(logAction(r.fs, cwd, t, "Created directory: ", path, NoArg), cwd,
            IF r.ok THEN Printed("Directory created: ", <<path>>, <<>>) ELSE Say("mkdir: error"),
            r.ok)

moveFile(fs, cwd, t, src, dest) ==
  LET r == RenameCall(fs, cwd, src, dest)
  IN IF r.ok
     THEN Result(logAction(r.fs, cwd, t, "Moved/Renamed: ", src, dest), cwd,
                 Printed("Moved: ", <<src, dest>>, <<>>), TRUE)
     ELSE Result(fs, cwd, Say("mv: error"), FALSE)

\* showHistory: a missing log is "no history"; a directory of that name opens
\* and reads as no line at all.
showHistory(fs, cwd) ==
  LET lg == Walk(fs, cwd, <<LogName>>)
  IN IF lg = NoNode THEN Say("No activity history found yet.")
     ELSE Printed("----------- ACTIVITY LOG -----------", <<>>,
                  IF fs[lg].kind = "file" THEN fs[lg].data ELSE <<>>)

\* ------------------------------------------------------------------ main
VARIABLES
  fs,        \* the inode table
  cwd,       \* the process's working directory (an inode)
  pc,        \* "prompt": in the loop; "done": after it
  now,       \* the clock of logAction: the number of lines read so far
  line,      \* the line last read, split: [cmd, args]
  out,       \* what the last command printed
  prompt,    \* the buffer main prints before reading
  startDir,  \* the working directory the process started in
  nOk        \* how many operations of this session succeeded

vars == <<fs, cwd, pc, now, line, out, prompt, startDir, nOk>>

Line(cmd, args) == [cmd |-> cmd, args |-> args]
\* args.size() of main: the command word and its operands; 0 for a blank line
ArgsSize(l) == IF l.cmd = "" THEN 0 ELSE 1 + Len(l.args)

\* A slip in main: only one spelling of exit.
IsExitOnly(cmd) == cmd = "exit"

IsExit(cmd) == cmd = "exit" \/ cmd = "quit"

\* The branches of main's chain that check args.size() before they act.
CmdLs(f, c, t, l, order) ==
  listFiles(f, c, t, IF ArgsSize(l) > 1 THEN l.args[1] ELSE <<Dot>>, order)

CmdCd(f, c, t, l) ==
  IF ArgsSize(l) > 1 THEN changeDir(f, c, t, l.args[1])
  ELSE Result(f, c, Say("Usage: cd <dir>"), FALSE)

CmdCp(f, c, t, l) ==
  IF ArgsSize(l) > 2 THEN copyFile(f, c, t, l.args[1], l.args[2])
  ELSE Result(f, c, Say("Usage: cp <src> <dest>"), FALSE)

CmdMv(f, c, t, l) ==
  IF ArgsSize(l) > 2 THEN moveFile(f, c, t, l.args[1], l.args[2])
  ELSE Result(f, c, Say("Usage: mv <src> <dest>"), FALSE)

\* A slip in main: rm without an operand acts on ".", as ls does.
CmdRmDefaultsToDot(f, c, t, l, order, sees) ==
  LET path == IF ArgsSize(l) > 1 THEN l.args[1] ELSE <<Dot>>
      n == Walk(f, c, path)
      f2 == removeRecursive(f, c, t, path, order, sees)
  IN Result(f2, c, Say(""), n # NoNode /\ (f2[n].kind = "free" \/ ~f2[n].live))

\* removeRecursive prints nothing; it succeeded when the path named something
\* that is no longer linked.
CmdRm(f, c, t, l, order, sees) ==
  IF ArgsSize(l) > 1
  THEN LET n == Walk(f, c, l.args[1])
           f2 == removeRecursive(f, c, t, l.args[1], order, sees)
       IN Result(f2, c, Say(""), n # NoNode /\ (f2[n].kind = "free" \/ ~f2[n].live))
  ELSE Result(f, c, Say("Usage: rm <path>"), FALSE)

CmdTouch(f, c, t, l) ==
  IF ArgsSize(l) > 1 THEN touchFile(f, c, t, l.args[1])
  ELSE Result(f, c, Say("Usage: touch <file>"), FALSE)

CmdMkdir(f, c, t, l) ==
  IF ArgsSize(l) > 1 THEN makeDir(f, c, t, l.args[1])
  ELSE Result(f, c, Say("Usage: mkdir <dir>"), FALSE)

\* search hands searchFile its pattern only: the root is always ".".  The
\* pattern is the one word l.args[1] holds.
CmdSearch(f, c, t, l, order, sees) ==
  IF ArgsSize(l) > 1
  THEN LET r == searchFile(f, c, t, l.args[1][1], <<Dot>>, order, sees)
       IN Result(r.fs, c, Printed("", r.paths, <<>>), TRUE)
  ELSE Result(f, c, Say("Usage: search <pattern>"), FALSE)

\* The chain of main from "help" to the unknown command.
Dispatch(f, c, t, l, order, sees) ==
  IF l.cmd = "help" THEN Result(f, c, Say("Available Commands:"), FALSE)
  ELSE IF l.cmd = "ls" THEN CmdLs(f, c, t, l, order)
  ELSE IF l.cmd = "cd" THEN CmdCd(f, c, t, l)
  ELSE IF l.cmd = "pwd" THEN printPwd(f, c, t)
  ELSE IF l.cmd = "cp" THEN CmdCp(f, c, t, l)
  ELSE IF l.cmd = "mv" THEN CmdMv(f, c, t, l)
  ELSE IF l.cmd = "rm" THEN CmdRm(f, c, t, l, order, sees)
  ELSE IF l.cmd = "touch" THEN CmdTouch(f, c, t, l)
  ELSE IF l.cmd = "mkdir" THEN CmdMkdir(f, c, t, l)
  ELSE IF l.cmd = "search" THEN CmdSearch(f, c, t, l, order, sees)
  ELSE IF l.cmd = "history" THEN Result(f, c, showHistory(f, c), FALSE)
  ELSE Result(f, c, Say("Unknown command. Type 'help' for list."), FALSE)

\* One turn of the loop on the line l: a blank line goes back to the prompt,
\* exit and quit leave the loop, anything else is dispatched.  The prompt
\* buffer is filled by getcwd, and keeps what it held when getcwd fails.
Step(l, order, sees) ==
  /\ pc = "prompt"
  /\ now < MaxCmds
  /\ line' = l
  /\ now' = now + 1
  /\ UNCHANGED startDir
  /\ IF ArgsSize(l) = 0
     THEN /\ out' = Say("")
          /\ UNCHANGED <<fs, cwd, pc, prompt, nOk>>
     ELSE IF IsExit(l.cmd)
     THEN /\ pc' = "done"
          /\ out' = Say("Goodbye! Have a nice day :)")
          /\ UNCHANGED <<fs, cwd, prompt, nOk>>
     ELSE \E r \in {Dispatch(fs, cwd, now + 1, l, order, sees)} :
             /\ fs' = r.fs
             /\ cwd' = r.cwd
             /\ out' = r.out
             /\ nOk' = IF r.ok THEN nOk + 1 ELSE nOk
             /\ prompt' = IF Connected(r.fs, r.cwd) THEN PathOf(r.fs, r.cwd) ELSE prompt
             /\ pc' = "prompt"

\* A command that may make a file or a directory, and its log, needs two free
\* inodes: the table of the model is finite.
Room == Cardinality(FreeIds(fs)) >= 2

PathArgs ==
  { <<Dot>>, <<DotDot>>, <<NameA>>, <<NameAB>>, <<LogName>>,
    <<NameA, NameAB>>, <<DotDot, NameA>> }
Patterns == { <<"a">>, <<"b">>, <<"l", "o", "g">> }
AnyOrder == CHOOSE o \in Orders : TRUE

NoOperand == { <<>> }
OneOperand == { <<p>> : p \in PathArgs }
TwoOperands == { <<p, q>> : p \in PathArgs, q \in PathArgs }

Help == pc = "prompt" /\ Step(Line("help", <<>>), AnyOrder, FALSE)
Ls == /\ Room
      /\ \E a \in NoOperand \cup OneOperand, o \in Orders : Step(Line("ls", a), o, FALSE)
Cd == /\ Room
      /\ \E a \in NoOperand \cup OneOperand : Step(Line("cd", a), AnyOrder, FALSE)
Pwd == Room /\ Step(Line("pwd", <<>>), AnyOrder, FALSE)
Cp == /\ Room
      /\ \E a \in NoOperand \cup OneOperand \cup TwoOperands : Step(Line("cp", a), AnyOrder, FALSE)
Mv == /\ Room
      /\ \E a \in NoOperand \cup OneOperand \cup TwoOperands : Step(Line("mv", a), AnyOrder, FALSE)
Rm == /\ Room
      /\ \E a \in NoOperand \cup OneOperand, o \in Orders, s \in BOOLEAN :
            Step(Line("rm", a), o, s)
Touch == /\ Room
         /\ \E a \in NoOperand \cup OneOperand : Step(Line("touch", a), AnyOrder, FALSE)
Mkdir == /\ Room
         /\ \E a \in NoOperand \cup OneOperand : Step(Line("mkdir", a), AnyOrder, FALSE)
Search ==
  /\ Room
  /\ \E a \in NoOperand \cup { <<(<<p>>)>> : p \in Patterns }
              \cup { <<(<<p>>), <<NameA>>>> : p \in Patterns },
        o \in Orders, s \in BOOLEAN :
        Step(Line("search", a), o, s)
History == pc = "prompt" /\ Step(Line("history", <<>>), AnyOrder, FALSE)
Unknown == pc = "prompt" /\ Step(Line("dir", <<>>), AnyOrder, FALSE)
Blank == pc = "prompt" /\ Step(Line("", <<>>), AnyOrder, FALSE)
Exit == pc = "prompt" /\ \E c \in {"exit", "quit"} : Step(Line(c, <<>>), AnyOrder, FALSE)

\* getline fails: the input has ended.
Eof ==
  /\ pc = "prompt"
  /\ pc' = "done"
  /\ out' = Say("Goodbye! Have a nice day :)")
  /\ UNCHANGED <<fs, cwd, now, line, prompt, startDir, nOk>>

\* The filesystem the process finds: /a/a/ab and /a/ab, and in /a either no
\* activity_log.txt, or the log of an earlier session, or a directory of that
\* name; the process starts in /a or in /a/a.
DirNode(parent, ents) ==
  [kind |-> "dir", parent |-> parent, live |-> TRUE, ents |-> ents, data |-> <<>>]
FileNode(parent, data) ==
  [kind |-> "file", parent |-> parent, live |-> TRUE, ents |-> EmptyEnts, data |-> data]

LogKinds == {"none", "file", "dir"}

InitFs(log) ==
  [i \in Ids |->
     CASE i = 0 -> DirNode(0, AddEnt(EmptyEnts, NameA, 1))
       [] i = 1 -> DirNode(0, IF log # "none"
                              THEN AddEnt(AddEnt(AddEnt(EmptyEnts, NameA, 2), NameAB, 3), LogName, 5)
                              ELSE AddEnt(AddEnt(EmptyEnts, NameA, 2), NameAB, 3))
       [] i = 2 -> DirNode(1, AddEnt(EmptyEnts, NameAB, 4))
       [] i = 3 -> FileNode(1, <<Raw("x"), Raw("y")>>)
       [] i = 4 -> FileNode(2, <<Raw("z")>>)
       [] i = 5 /\ log = "file" ->
            FileNode(1, <<Rec(0, "Checked current directory.", NoArg, NoArg)>>)
       [] i = 5 /\ log = "dir" -> DirNode(1, EmptyEnts)
       [] OTHER -> FreeNode]

Init ==
  /\ \E log \in LogKinds : fs = InitFs(log)
  /\ cwd \in {1, 2}
  /\ startDir = cwd
  /\ pc = "prompt"
  /\ now = 0
  /\ line = Line("", <<>>)
  /\ out = Say("")
  /\ prompt = PathOf(fs, cwd)
  /\ nOk = 0

Next ==
  \/ Help \/ Ls \/ Cd \/ Pwd \/ Cp \/ Mv \/ Rm \/ Touch \/ Mkdir \/ Search
  \/ History \/ Unknown \/ Blank \/ Exit \/ Eof

Spec == Init /\ [][Next]_vars
FairSpec == Spec /\ WF_vars(Next)

\* ------------------------------------------------------------ the claims
\* A line was read and handled in this step (Eof reads none).
ReadCmd(c) == now' = now + 1 /\ line'.cmd = c
Operands == Len(line'.args)

\* The paths, relative to directory n, of every entry at any depth below it.
RECURSIVE Under(_, _)
Under(f, n) ==
  IF ~IsDirNode(f, n) THEN {}
  ELSE UNION { {<<e>>} \cup { <<e>> \o q : q \in Under(f, f[n].ents[e]) } : e \in DOMAIN f[n].ents }

\* pat occurs in name; and the full paths, as searchFile builds them from
\* `root`, of the entries below root whose name contains pat.
Contains(name, pat) ==
  \E i \in 1..Len(name) : \E j \in i..Len(name) : SubSeq(name, i, j) = pat

MatchesUnder(f, c, root, pat) ==
  { root \o q : q \in { x \in Under(f, Walk(f, c, root)) : Contains(Last(x), pat) } }

IsPrefix(s, t) == Len(s) <= Len(t) /\ SubSeq(t, 1, Len(s)) = s

\* The records of activity_log.txt of directory d; none when there is no such file.
LogOf(f, d) ==
  IF IsDirNode(f, d) /\ IsFileNode(f, Lookup(f, d, LogName)) THEN f[Lookup(f, d, LogName)].data
  ELSE <<>>

\* The log of the working directory ends with the record this step's command writes.
EndsWith(f, c, t, act, a1, a2) ==
  /\ LogOf(f, c) # <<>>
  /\ Last(LogOf(f, c)) = Rec(t, act, a1, a2)

\* Some file holds a record written at time t.
WrittenAt(f, t) ==
  { i \in Ids : f[i].kind = "file" /\ \E k \in 1..Len(f[i].data) : f[i].data[k].time = t }

\* C1 (as claimed): after a successful `cp src dest` of a file, dest holds what
\* src held before the command, and src holds it still; also when dest names
\* src itself, or the log.
C1_CopyIsIdentical ==
  [][ (ReadCmd("cp") /\ out'.msg = "Copied: " /\ IsFileNode(fs, Walk(fs, cwd, line'.args[1])))
      => LET before == fs[Walk(fs, cwd, line'.args[1])].data
             s2 == Walk(fs', cwd', line'.args[1])
             d2 == Walk(fs', cwd', line'.args[2])
         IN /\ IsFileNode(fs', d2) /\ fs'[d2].data = before
            /\ IsFileNode(fs', s2) /\ fs'[s2].data = before ]_vars

\* C2 (as claimed): after `rm d` of a directory d, wherever d lies, neither d
\* nor anything that was below it exists.
C2_RemoveLeavesNoTrace ==
  [][ (ReadCmd("rm") /\ Operands >= 1 /\ isDirectory(fs, cwd, line'.args[1]))
      => /\ Walk(fs', cwd', line'.args[1]) = NoNode
         /\ \A q \in Under(fs, Walk(fs, cwd, line'.args[1])) :
               Walk(fs', cwd', line'.args[1] \o q) = NoNode ]_vars

\* C3 (as claimed): `search <pattern> [root]` prints the full paths of the
\* entries below the given root whose name contains the pattern, no other.
C3_SearchUnderGivenRoot ==
  [][ (ReadCmd("search") /\ Operands >= 1)
      => LET pat == line'.args[1][1]
             root == IF Operands >= 2 THEN line'.args[2] ELSE <<Dot>>
         IN /\ MatchesUnder(fs, cwd, root, pat) \subseteq Range(out'.paths)
            /\ Range(out'.paths) \subseteq MatchesUnder(fs', cwd', root, pat) ]_vars

\* C3 (amended): `search <pattern>`, with or without further words, searches
\* the working directory: it prints, once each, the "./..." full paths of the
\* entries at any depth below the working directory whose name contains the
\* pattern; every such entry that was there when the command began is
\* printed, and the only other path that may be printed is that of the log
\* the command itself made in the working directory.
C3_SearchUnderCwd ==
  [][ (ReadCmd("search") /\ Operands >= 1)
      => LET pat == line'.args[1][1]
             shown == Range(out'.paths)
         IN /\ MatchesUnder(fs, cwd, <<Dot>>, pat) \subseteq shown
            /\ shown \subseteq MatchesUnder(fs', cwd', <<Dot>>, pat)
            /\ shown \ MatchesUnder(fs, cwd, <<Dot>>, pat) \subseteq {<<Dot, LogName>>}
            /\ Cardinality(shown) = Len(out'.paths) ]_vars

\* A search with a root operand printed a nested match and a path outside that root.
C3_Witness ==
  /\ line.cmd = "search" /\ Len(line.args) = 2
  /\ <<Dot, NameA, NameAB>> \in Range(out.paths)
  /\ <<Dot, NameAB>> \in Range(out.paths)

\* C4 (as claimed): after N successful operations, history shows at least N
\* lines, in the order the operations were invoked.
C4_HistoryShowsAll ==
  pc = "prompt" =>
    LET shown == showHistory(fs, cwd).lines
    IN /\ Len(shown) >= nOk
       /\ \A i, j \in 1..Len(shown) : i < j => shown[i].time <= shown[j].time

\* C5 (as claimed): the log of the directory the process started in only
\* grows: what it held before a command is a prefix of what it holds after.
C5_LogAppendOnly ==
  [][ IsPrefix(LogOf(fs, startDir), LogOf(fs', startDir)) ]_vars

\* C6 (as claimed): every record a command writes goes to activity_log.txt of
\* the directory the process started in.
C6_OneLogFile ==
  [][ now' = now + 1 => WrittenAt(fs', now') \subseteq {Lookup(fs', startDir, LogName)} ]_vars

\* C7 (as claimed): cd, pwd, mv, touch and mkdir, given their operands, each
\* leave their record at the end of the log, succeed or fail.
C7_AlwaysLogs ==
  [][ /\ (ReadCmd("pwd")
            => EndsWith(fs', cwd', now', "Checked current directory.", NoArg, NoArg))
      /\ (ReadCmd("mkdir") /\ Operands >= 1
            => EndsWith(fs', cwd', now', "Created directory: ", line'.args[1], NoArg))
      /\ (ReadCmd("cd") /\ Operands >= 1
            => EndsWith(fs', cwd', now', "Changed directory to: ", line'.args[1], NoArg))
      /\ (ReadCmd("touch") /\ Operands >= 1
            => EndsWith(fs', cwd', now', "Created or updated file: ", line'.args[1], NoArg))
      /\ (ReadCmd("mv") /\ Operands >= 2
            => EndsWith(fs', cwd', now', "Moved/Renamed: ", line'.args[1], line'.args[2])) ]_vars

\* The log of the working directory could not be opened for appending: the
\* name is a directory, or the working directory is unlinked and has no log.
LogShut(f, c) ==
  \/ IsDirNode(f, Lookup(f, c, LogName))
  \/ (Lookup(f, c, LogName) = NoNode /\ ~f[c].live)

\* C7 (amended): pwd and mkdir write their record whether or not the call
\* succeeded; cd, mv and touch write theirs only when the call succeeded, and a
\* failed cd, mv or touch changes nothing, the log included.  A record is
\* written at the end of activity_log.txt of the working directory, unless
\* that file cannot be opened.
C7_LogsAsCoded ==
  [][ /\ (ReadCmd("pwd")
            => \/ EndsWith(fs', cwd', now', "Checked current directory.", NoArg, NoArg)
               \/ LogShut(fs', cwd'))
      /\ (ReadCmd("mkdir") /\ Operands >= 1
            => \/ EndsWith(fs', cwd', now', "Created directory: ", line'.args[1], NoArg)
               \/ LogShut(fs', cwd'))
      /\ (ReadCmd("cd") /\ Operands >= 1
            => IF isDirectory(fs, cwd, line'.args[1])
               THEN \/ EndsWith(fs', cwd', now', "Changed directory to: ", line'.args[1], NoArg)
                    \/ LogShut(fs', cwd')
               ELSE out'.msg = "cd: error" /\ fs' = fs /\ cwd' = cwd)
      /\ (ReadCmd("touch") /\ Operands >= 1
            => IF out'.msg = "touch: error"
               THEN fs' = fs /\ cwd' = cwd
               ELSE \/ EndsWith(fs', cwd', now', "Created or updated file: ", line'.args[1], NoArg)
                    \/ LogShut(fs', cwd'))
      /\ (ReadCmd("mv") /\ Operands >= 2
            => IF out'.msg = "mv: error"
               THEN fs' = fs /\ cwd' = cwd
               ELSE \/ EndsWith(fs', cwd', now', "Moved/Renamed: ", line'.args[1], line'.args[2])
                    \/ LogShut(fs', cwd')) ]_vars

\* A cd failed and no record of it was written anywhere.
C7_Witness ==
  /\ line.cmd = "cd" /\ Len(line.args) = 1
  /\ out.msg = "cd: error"
  /\ WrittenAt(fs, now) = {}

TooFew(l) ==
  \/ l.cmd \in {"cd", "rm", "touch", "mkdir", "search"} /\ Len(l.args) < 1
  \/ l.cmd \in {"cp", "mv"} /\ Len(l.args) < 2

UsageOf(c) ==
  CASE c = "cd" -> "Usage: cd <dir>"
    [] c = "cp" -> "Usage: cp <src> <dest>"
    [] c = "mv" -> "Usage: mv <src> <dest>"
    [] c = "rm" -> "Usage: rm <path>"
    [] c = "touch" -> "Usage: touch <file>"
    [] c = "mkdir" -> "Usage: mkdir <dir>"
    [] c = "search" -> "Usage: search <pattern>"
    [] OTHER -> ""

\* C8: cd, rm, touch, mkdir, search with no operand, and cp, mv with fewer
\* than two, print their usage line and do nothing else: the files, the
\* working directory and every log stay as they were, and the loop goes on.
C8_UsageChangesNothing ==
  [][ (now' = now + 1 /\ TooFew(line'))
      => /\ out' = Say(UsageOf(line'.cmd))
         /\ fs' = fs
         /\ cwd' = cwd
         /\ pc' = "prompt" ]_vars

\* A cp with one operand printed its usage line.
C8_Witness ==
  /\ line.cmd = "cp" /\ Len(line.args) = 1
  /\ out.msg = "Usage: cp <src> <dest>"
  /\ pc = "prompt"

C10_OnlyCdMovesCwd ==
  [][ cwd' # cwd
      => /\ ReadCmd("cd") /\ Operands >= 1
         /\ isDirectory(fs, cwd, line'.args[1])
         /\ cwd' = Walk(fs, cwd, line'.args[1]) ]_vars

\* A cd moved the process out of the directory it started in.
C10_Witness ==
  /\ cwd # startDir
  /\ line.cmd = "cd"
  /\ out.msg = "Changed directory to: "

====
